---- MODULE Spec2Model ----
(***************************************************************************)
(* Model of src/train/train.py: the distributed training loop               *)
(* (training_loop), its process-group lifecycle, the per-batch optimisation *)
(* step and the checkpoint save / restore it drives.                        *)
(*                                                                          *)
(* One worker process per rank.  Single-process mode is the one worker of   *)
(* rank -1 (world_size -1).  The checkpoint file outlives the processes: a  *)
(* later invocation (NewRun) finds what earlier invocations left on disk.   *)
(***************************************************************************)
EXTENDS Integers, Sequences, FiniteSets, TLC

\* ------------------------------------------------------------------ bounds
MaxWorld == 2        \* largest device count of a spawned run
MaxEpochs == 2       \* largest configured epoch count
MaxSamples == 3      \* largest dataset size
MaxInterval == 2     \* largest checkpoint_interval
MaxRuns == 2         \* invocations of the program in one behaviour
MaxOverflows == 1    \* batches whose gradients overflow, per behaviour
MaxRank == 3         \* |rank|, |world_size| of a checked call
MaxSeqLen == 17      \* |max_seq_len| of a checked call
MaxLen == 3          \* longest prompt and longest label of a batch
MaxBatch == 2        \* largest batch_size of the metric totals
MaxBatches == 2      \* most batches per epoch of the metric totals
MaxLoss == 1         \* largest loss.item() of a batch (in whole units)

\* ------------------------------------------------------- program constants
InitScale == 65536        \* amp.GradScaler() default init_scale
GrowthInterval == 2000    \* amp.GradScaler() default growth_interval

VARIABLES
    cfg,              \* the arguments of this behaviour's invocations
    run,              \* number of the current invocation
    pc,               \* rank -> position in training_loop
    setupCalls,       \* rank -> calls of setup_distributed in this run
    groupLive,        \* rank -> process group initialised and not destroyed
    wrapped,          \* rank -> network is wrapped in DDP
    network,          \* rank -> model weights (number of updates applied)
    optimizer,        \* rank -> optimizer state (number of steps applied)
    scheduler,        \* rank -> scheduler state (last_epoch)
    scaler,           \* rank -> [scale, growth_tracker]
    grads,            \* rank -> "none" | "finite" | "inf" | "zero"
    starting_epochs,  \* rank -> training_loop's starting_epochs
    epoch,            \* rank -> loop variable of the epoch loop
    batch_idx,        \* rank -> loop variable of the batch loop
    contributed,      \* rank -> gradient collectives this rank has entered
    roundInf,         \* whether the current collective's gradients overflow
    overflows,        \* overflowing batches so far (bounded by MaxOverflows)
    file,             \* the checkpoint destination named by model_name
    savePos,          \* rank -> fields of the current save already written
    exported,         \* rank -> calls of save_model in this run
    epochsRun,        \* rank -> epochs whose body this run has entered
    saveCalls,        \* rank -> <<epoch, batch_idx>> of each save_checkpoint call
    skipCalls,        \* rank -> <<epoch, batch_idx>> of each batch without a save
    processed,        \* <<rank, epoch, batch_idx>> processed by this run so far
    stepAttempts,     \* rank -> optimizer-step attempts in this run
    stepsSkipped,     \* rank -> optimizer steps the scaler skipped in this run
    batches,          \* rank -> batches processed in this run
    schedAtStart,     \* rank -> scheduler state when the epoch loop started
    observed,         \* rank -> what the load of this run found on disk
    snap,             \* rank -> the state handed to its latest save_checkpoint
    optAtStart,       \* rank -> optimizer state when the epoch loop started
    call,             \* a helper function applied on its own: arguments, result
    metrics           \* the per-epoch accumulators of one worker, taken alone

vars == <<cfg, run, pc, setupCalls, groupLive, wrapped, network, optimizer,
          scheduler, scaler, grads, starting_epochs, epoch, batch_idx,
          contributed, roundInf, overflows, file, savePos, exported,
          epochsRun, saveCalls, skipCalls, processed, stepAttempts,
          stepsSkipped, batches, schedAtStart, observed, snap, optAtStart,
          call, metrics>>

\* ------------------------------------------------------------ configuration
\* main(): device "cuda" spawns one worker per device with ranks 0..W-1;
\* any other device calls training_loop with the default rank -1.
\* training_loop itself accepts rank -1 with device "cuda" as well.
Configs ==
    { [device |-> d, world_size |-> w, epochs |-> e, nsamples |-> n,
       batch_size |-> 1, checkpoint_interval |-> k] :
         d \in {"cpu", "cuda"}, w \in {-1} \cup (1..MaxWorld),
         e \in 1..MaxEpochs, n \in 1..MaxSamples, k \in 1..MaxInterval }

ValidConfig(c) == c.world_size # -1 => c.device = "cuda"

Ranks == IF cfg.world_size = -1 THEN {-1} ELSE 0..(cfg.world_size - 1)

\* device = T.device(f"cuda:{rank}" if rank != -1 else device); device.type
DeviceType(rank) == IF rank # -1 THEN "cuda" ELSE cfg.device

\* rank != -1 and world_size != -1, the test that guards setup and DDP
IsDistributedEverywhere(rank, world_size) == TRUE
IsDistributed(rank, world_size) == rank # -1 /\ world_size # -1

\* rank != -1 and world_size != -1, the test that selects DistributedSampler
UsesSampler(rank, world_size) == rank # -1 /\ world_size # -1

CeilDiv(a, b) == (a + b - 1) \div b

LenDataloaderUnpadded(rank) ==
    LET n == IF UsesSampler(rank, cfg.world_size)
             THEN Cardinality({i \in 0..(cfg.nsamples - 1) :
                                 i % cfg.world_size = rank})
             ELSE cfg.nsamples
    IN  CeilDiv(n, cfg.batch_size)

\* len(dataloader): DistributedSampler hands every rank ceil(n / world_size)
\* samples (it pads), DataLoader cuts them into ceil(. / batch_size) batches.
LenDataloader(rank) ==
    LET n == IF UsesSampler(rank, cfg.world_size)
             THEN CeilDiv(cfg.nsamples, cfg.world_size)
             ELSE cfg.nsamples
    IN  CeilDiv(n, cfg.batch_size)

\* range(starting_epochs + 1, starting_epochs + epochs + 1)
FirstEpochOffByOne(start) == start
FirstEpoch(start) == start + 1
LastEpoch(start, n) == start + n

\* batch_idx % checkpoint_interval == 0
CheckpointDueAtEnd(b, k) == (b + 1) % k = 0
CheckpointDue(b, k) == b % k = 0

\* amp.GradScaler(): fresh state
InitScaler == [scale |-> InitScale, growth_tracker |-> 0]

\* scaler.update(): halve on overflow, double after GrowthInterval clean steps
ScalerUpdate(s, inf) ==
    IF inf THEN [scale |-> s.scale \div 2, growth_tracker |-> 0]
    ELSE IF s.growth_tracker + 1 = GrowthInterval
         THEN [scale |-> s.scale * 2, growth_tracker |-> 0]
         ELSE [scale |-> s.scale, growth_tracker |-> s.growth_tracker + 1]

\* scaler.step(optimizer) on cuda, optimizer.step() otherwise: whether the
\* optimizer step is applied
StepAppliedAlways(dev, g) == TRUE
StepApplied(dev, g) == IF dev = "cuda" THEN g # "inf" ELSE TRUE

\* scheduler.step()
SchedulerStepNever(s) == s
SchedulerSteppedTwice(s) == s + 2
SchedulerStepped(s) == s + 1

\* ------------------------------------------------------- checkpoint store
Fields == <<"network", "optimizer", "scheduler", "scaler", "epochs">>
NoId == <<0, 0, 0, 0>>
AbsentField(name) ==
    [present |-> FALSE,
     val |-> IF name = "scaler" THEN [scale |-> 0, growth_tracker |-> 0] ELSE 0,
     id |-> NoId]
NoFile == [name \in {Fields[i] : i \in 1..5} |-> AbsentField(name)]

\* ModelLoader.checkpoint_exists(): the destination holds something
checkpoint_exists(f) == \E i \in 1..5 : f[Fields[i]].present

\* ModelLoader.load_checkpoint(): raises when a required field is missing
load_raises(f) == \E i \in 1..5 : ~f[Fields[i]].present

\* what save_checkpoint(network, optimizer, scheduler, scaler, epoch) writes
\* into field i, tagged with the save call that writes it
SavedField(w, i) ==
    [present |-> TRUE,
     val |-> CASE i = 1 -> network[w]
               [] i = 2 -> optimizer[w]
               [] i = 3 -> scheduler[w]
               [] i = 4 -> scaler[w]
               [] i = 5 -> epoch[w],
     id |-> <<run, w, epoch[w], batch_idx[w]>>]

\* the four load_state_dict calls and starting_epochs = x["epochs"]
RestoreButScaler(x) ==
    [network |-> x.network.val, optimizer |-> x.optimizer.val,
     scheduler |-> x.scheduler.val, scaler |-> InitScaler,
     starting_epochs |-> x.epochs.val]
Restore(x) ==
    [network |-> x.network.val, optimizer |-> x.optimizer.val,
     scheduler |-> x.scheduler.val, scaler |-> x.scaler.val,
     starting_epochs |-> x.epochs.val]

NoSnap == [id |-> NoId, network |-> 0, optimizer |-> 0, scheduler |-> 0,
           scaler |-> [scale |-> 0, growth_tracker |-> 0], epochs |-> 0]

\* how a load classifies what it finds on disk
Classify(f) ==
    IF ~checkpoint_exists(f) THEN "absent"
    ELSE IF load_raises(f) THEN "partial"
    ELSE IF \A i \in 1..5 : f[Fields[i]].id = f[Fields[1]].id THEN "whole"
    ELSE "torn"

NotLoaded == [kind |-> "nothing", epochs |-> 0, id |-> NoId]

\* no helper function is being applied on its own; no accumulators tracked
NoCall == [fn |-> "none", returned |-> FALSE, rank |-> 0, world_size |-> 0,
           max_seq_len |-> 0, main |-> FALSE, level |-> "NOTSET",
           max_sentence_length |-> 0, max_context_length |-> 0]
NoMetrics == [phase |-> "idle", prompt_len |-> 0, label_len |-> 0,
              batch_size |-> 0, nbatches |-> 0, epochs_left |-> 0,
              batch_idx |-> 0, num_correct |-> 0, num_total |-> 0,
              total_loss |-> 0, accuracy |-> <<0, 1>>, avg_loss |-> <<0, 1>>]

\* ----------------------------------------------------------------- Init
FreshWorkers(c) ==
    LET R == IF c.world_size = -1 THEN {-1} ELSE 0..(c.world_size - 1) IN
    /\ pc = [w \in R |-> "start"]
    /\ setupCalls = [w \in R |-> 0]
    /\ groupLive = [w \in R |-> FALSE]
    /\ wrapped = [w \in R |-> FALSE]
    /\ network = [w \in R |-> 0]
    /\ optimizer = [w \in R |-> 0]
    /\ scheduler = [w \in R |-> 0]
    /\ scaler = [w \in R |-> InitScaler]
    /\ grads = [w \in R |-> "none"]
    /\ starting_epochs = [w \in R |-> 0]
    /\ epoch = [w \in R |-> 0]
    /\ batch_idx = [w \in R |-> 0]
    /\ contributed = [w \in R |-> 0]
    /\ roundInf = FALSE
    /\ savePos = [w \in R |-> 0]
    /\ exported = [w \in R |-> 0]
    /\ epochsRun = [w \in R |-> <<>>]
    /\ saveCalls = [w \in R |-> {}]
    /\ skipCalls = [w \in R |-> {}]
    /\ stepAttempts = [w \in R |-> 0]
    /\ stepsSkipped = [w \in R |-> 0]
    /\ batches = [w \in R |-> 0]
    /\ schedAtStart = [w \in R |-> 0]
    /\ optAtStart = [w \in R |-> 0]
    /\ observed = [w \in R |-> NotLoaded]

Init ==
    /\ cfg \in {c \in Configs : ValidConfig(c)}
    /\ call = NoCall
    /\ metrics = NoMetrics
    /\ run = 1
    /\ file = NoFile
    /\ overflows = 0
    /\ processed = {}
    /\ snap = [w \in (IF cfg.world_size = -1 THEN {-1} ELSE 0..(cfg.world_size - 1))
                 |-> NoSnap]
    /\ FreshWorkers(cfg)

\* ------------------------------------------------------------- the actions
\* prepare_network: setup_distributed is called only in a distributed run
PrepareNetwork(w) ==
    /\ pc[w] = "start"
    /\ IF IsDistributed(w, cfg.world_size)
       THEN /\ setupCalls' = [setupCalls EXCEPT ![w] = @ + 1]
            /\ pc' = [pc EXCEPT ![w] = "rendezvous"]
       ELSE /\ pc' = [pc EXCEPT ![w] = "load"]
            /\ UNCHANGED setupCalls
    /\ UNCHANGED <<call, metrics, optAtStart, cfg, run, groupLive, wrapped, network, optimizer, scheduler,
                   scaler, grads, starting_epochs, epoch, batch_idx,
                   contributed, roundInf, overflows, file, savePos, exported,
                   epochsRun, saveCalls, skipCalls, processed, stepAttempts,
                   stepsSkipped, batches, schedAtStart, observed, snap>>

\* dist.init_process_group returns once every rank of the world has joined
InitProcessGroup(w) ==
    /\ pc[w] = "rendezvous"
    /\ \A v \in Ranks : setupCalls[v] >= 1
    /\ groupLive' = [groupLive EXCEPT ![w] = TRUE]
    /\ pc' = [pc EXCEPT ![w] = "wrap"]
    /\ UNCHANGED <<call, metrics, optAtStart, cfg, run, setupCalls, wrapped, network, optimizer, scheduler,
                   scaler, grads, starting_epochs, epoch, batch_idx,
                   contributed, roundInf, overflows, file, savePos, exported,
                   epochsRun, saveCalls, skipCalls, processed, stepAttempts,
                   stepsSkipped, batches, schedAtStart, observed, snap>>

\* network = DDP(network, device_ids=[rank])
WrapDDP(w) ==
    /\ pc[w] = "wrap"
    /\ wrapped' = [wrapped EXCEPT ![w] = TRUE]
    /\ pc' = [pc EXCEPT ![w] = "load"]
    /\ UNCHANGED <<call, metrics, optAtStart, cfg, run, setupCalls, groupLive, network, optimizer,
                   scheduler, scaler, grads, starting_epochs, epoch, batch_idx,
                   contributed, roundInf, overflows, file, savePos, exported,
                   epochsRun, saveCalls, skipCalls, processed, stepAttempts,
                   stepsSkipped, batches, schedAtStart, observed, snap>>

\* the else branch: no checkpoint, starting_epochs = 0
StartFresh(w) ==
    /\ starting_epochs' = [starting_epochs EXCEPT ![w] = 0]
    /\ epoch' = [epoch EXCEPT ![w] = FirstEpoch(0)]
    /\ schedAtStart' = [schedAtStart EXCEPT ![w] = scheduler[w]]
    /\ optAtStart' = [optAtStart EXCEPT ![w] = optimizer[w]]
    /\ pc' = [pc EXCEPT ![w] = "epoch"]
    /\ UNCHANGED <<network, optimizer, scheduler, scaler>>

\* the if branch with a loadable checkpoint
RestoreFrom(w) ==
    LET r == Restore(file) IN
    /\ network' = [network EXCEPT ![w] = r.network]
    /\ optimizer' = [optimizer EXCEPT ![w] = r.optimizer]
    /\ scheduler' = [scheduler EXCEPT ![w] = r.scheduler]
    /\ scaler' = [scaler EXCEPT ![w] = r.scaler]
    /\ starting_epochs' = [starting_epochs EXCEPT ![w] = r.starting_epochs]
    /\ epoch' = [epoch EXCEPT ![w] = FirstEpoch(r.starting_epochs)]
    /\ schedAtStart' = [schedAtStart EXCEPT ![w] = r.scheduler]
    /\ optAtStart' = [optAtStart EXCEPT ![w] = r.optimizer]
    /\ pc' = [pc EXCEPT ![w] = "epoch"]

\* load_checkpoint raises: nothing in training_loop catches it
LoadRaise(w) ==
    /\ pc' = [pc EXCEPT ![w] = "failed"]
    /\ UNCHANGED <<network, optimizer, scheduler, scaler, starting_epochs,
                   epoch, schedAtStart, optAtStart>>

OnCorruptStartFresh(w) == StartFresh(w)
OnCorrupt(w) == LoadRaise(w)

\* if model_loader.checkpoint_exists(): ... else: ...
LoadCheckpoint(w) ==
    /\ pc[w] = "load"
    /\ observed' = [observed EXCEPT ![w] =
                       [kind |-> Classify(file), epochs |-> file.epochs.val,
                        id |-> file.network.id]]
    /\ IF checkpoint_exists(file)
       THEN IF load_raises(file) THEN OnCorrupt(w) ELSE RestoreFrom(w)
       ELSE StartFresh(w)
    /\ UNCHANGED <<call, metrics, cfg, run, setupCalls, groupLive, wrapped, grads, batch_idx,
                   contributed, roundInf, overflows, file, savePos, exported,
                   epochsRun, saveCalls, skipCalls, processed, stepAttempts,
                   stepsSkipped, batches, snap>>

\* for epoch in range(...): enter the next epoch or leave the loop
EpochLoop(w) ==
    /\ pc[w] = "epoch"
    /\ IF epoch[w] <= LastEpoch(starting_epochs[w], cfg.epochs)
       THEN /\ epochsRun' = [epochsRun EXCEPT ![w] = Append(@, epoch[w])]
            /\ batch_idx' = [batch_idx EXCEPT ![w] = 0]
            /\ pc' = [pc EXCEPT ![w] = "batch"]
       ELSE /\ pc' = [pc EXCEPT ![w] = "export"]
            /\ UNCHANGED <<epochsRun, batch_idx>>
    /\ UNCHANGED <<call, metrics, optAtStart, cfg, run, setupCalls, groupLive, wrapped, network, optimizer,
                   scheduler, scaler, grads, starting_epochs, epoch,
                   contributed, roundInf, overflows, file, savePos, exported,
                   saveCalls, skipCalls, processed, stepAttempts,
                   stepsSkipped, batches, schedAtStart, observed, snap>>

\* masks, forward pass under autocast, loss, total_loss += loss.item(); then
\* backward() begins: the rank hands its gradients to the collective.  The
\* rank that completes the round fixes whether the reduced gradients overflow.
ForwardBackward(w) ==
    /\ pc[w] = "batch"
    /\ contributed' = [contributed EXCEPT ![w] = @ + 1]
    /\ IF \A v \in Ranks : wrapped[w] => contributed'[v] >= contributed'[w]
       THEN \E inf \in BOOLEAN :
              /\ inf => overflows < MaxOverflows
              /\ roundInf' = inf
              /\ overflows' = IF inf THEN overflows + 1 ELSE overflows
       ELSE UNCHANGED <<roundInf, overflows>>
    /\ pc' = [pc EXCEPT ![w] = "allreduce"]
    /\ UNCHANGED <<call, metrics, optAtStart, cfg, run, setupCalls, groupLive, wrapped, network, optimizer,
                   scheduler, scaler, grads, starting_epochs, epoch, batch_idx,
                   file, savePos, exported, epochsRun, saveCalls, skipCalls,
                   processed, stepAttempts, stepsSkipped, batches,
                   schedAtStart, observed, snap>>

\* under DDP backward() returns once every rank has contributed to the round
AllReduceNoBarrier(w) == TRUE
AllReduceReady(w) ==
    wrapped[w] => \A v \in Ranks : contributed[v] >= contributed[w]

BackwardDone(w) ==
    /\ pc[w] = "allreduce"
    /\ AllReduceReady(w)
    /\ grads' = [grads EXCEPT ![w] = IF roundInf THEN "inf" ELSE "finite"]
    /\ pc' = [pc EXCEPT ![w] = "step"]
    /\ UNCHANGED <<call, metrics, optAtStart, cfg, run, setupCalls, groupLive, wrapped, network, optimizer,
                   scheduler, scaler, starting_epochs, epoch, batch_idx,
                   contributed, roundInf, overflows, file, savePos, exported,
                   epochsRun, saveCalls, skipCalls, processed, stepAttempts,
                   stepsSkipped, batches, schedAtStart, observed, snap>>

\* cuda: scaler.step(optimizer); scaler.update()   else: optimizer.step()
OptimStep(w) ==
    /\ pc[w] = "step"
    /\ stepAttempts' = [stepAttempts EXCEPT ![w] = @ + 1]
    /\ IF StepApplied(DeviceType(w), grads[w])
       THEN /\ network' = [network EXCEPT ![w] = @ + 1]
            /\ optimizer' = [optimizer EXCEPT ![w] = @ + 1]
            /\ UNCHANGED stepsSkipped
       ELSE /\ stepsSkipped' = [stepsSkipped EXCEPT ![w] = @ + 1]
            /\ UNCHANGED <<network, optimizer>>
    /\ scaler' = IF DeviceType(w) = "cuda"
                 THEN [scaler EXCEPT ![w] = ScalerUpdate(@, grads[w] = "inf")]
                 ELSE scaler
    /\ pc' = [pc EXCEPT ![w] = "zero_grad"]
    /\ UNCHANGED <<call, metrics, optAtStart, cfg, run, setupCalls, groupLive, wrapped, scheduler, grads,
                   starting_epochs, epoch, batch_idx, contributed, roundInf,
                   overflows, file, savePos, exported, epochsRun, saveCalls,
                   skipCalls, processed, batches, schedAtStart, observed, snap>>

ZeroGradSkipped(w) ==
    /\ pc[w] = "zero_grad"
    /\ pc' = [pc EXCEPT ![w] = "sched"]
    /\ UNCHANGED <<call, metrics, optAtStart, cfg, run, setupCalls, groupLive,
                   wrapped, network, optimizer, scheduler, scaler, grads,
                   starting_epochs, epoch, batch_idx, contributed, roundInf,
                   overflows, file, savePos, exported, epochsRun, saveCalls,
                   skipCalls, processed, stepAttempts, stepsSkipped, batches,
                   schedAtStart, observed, snap>>

\* optimizer.zero_grad()
ZeroGrad(w) ==
    /\ pc[w] = "zero_grad"
    /\ grads' = [grads EXCEPT ![w] = "zero"]
    /\ pc' = [pc EXCEPT ![w] = "sched"]
    /\ UNCHANGED <<call, metrics, optAtStart, cfg, run, setupCalls, groupLive, wrapped, network, optimizer,
                   scheduler, scaler, starting_epochs, epoch, batch_idx,
                   contributed, roundInf, overflows, file, savePos, exported,
                   epochsRun, saveCalls, skipCalls, processed, stepAttempts,
                   stepsSkipped, batches, schedAtStart, observed, snap>>

\* the batch loop's next iteration, or the end of the epoch (metrics logged)
Advance(w) ==
    IF batch_idx[w] + 1 < LenDataloader(w)
    THEN /\ batch_idx' = [batch_idx EXCEPT ![w] = @ + 1]
         /\ pc' = [pc EXCEPT ![w] = "batch"]
         /\ UNCHANGED epoch
    ELSE /\ epoch' = [epoch EXCEPT ![w] = @ + 1]
         /\ pc' = [pc EXCEPT ![w] = "epoch"]
         /\ UNCHANGED batch_idx

\* the test that guards save_checkpoint: the batch index alone, whatever the
\* rank of the worker
SaveDueMainOnly(w) ==
    /\ w \in {-1, 0}
    /\ CheckpointDue(batch_idx[w], cfg.checkpoint_interval)
SaveDue(w) == CheckpointDue(batch_idx[w], cfg.checkpoint_interval)

\* scheduler.step(); the metric totals; the test of the checkpoint interval
SchedulerStep(w) ==
    /\ pc[w] = "sched"
    /\ scheduler' = [scheduler EXCEPT ![w] = SchedulerStepped(@)]
    /\ batches' = [batches EXCEPT ![w] = @ + 1]
    /\ processed' = processed \cup {<<w, epoch[w], batch_idx[w]>>}
    /\ IF SaveDue(w)
       THEN /\ saveCalls' = [saveCalls EXCEPT ![w] = @ \cup {<<epoch[w], batch_idx[w]>>}]
            /\ snap' = [snap EXCEPT ![w] =
                          [id |-> <<run, w, epoch[w], batch_idx[w]>>,
                           network |-> network[w], optimizer |-> optimizer[w],
                           scheduler |-> scheduler'[w], scaler |-> scaler[w],
                           epochs |-> epoch[w]]]
            /\ savePos' = [savePos EXCEPT ![w] = 0]
            /\ pc' = [pc EXCEPT ![w] = "save"]
            /\ UNCHANGED <<skipCalls, epoch, batch_idx>>
       ELSE /\ skipCalls' = [skipCalls EXCEPT ![w] = @ \cup {<<epoch[w], batch_idx[w]>>}]
            /\ Advance(w)
            /\ UNCHANGED <<saveCalls, snap, savePos>>
    /\ UNCHANGED <<call, metrics, optAtStart, cfg, run, setupCalls, groupLive, wrapped, network, optimizer,
                   scaler, grads, starting_epochs, contributed, roundInf,
                   overflows, file, exported, epochsRun, stepAttempts,
                   stepsSkipped, schedAtStart, observed>>

\* save_checkpoint writes the destination in place, one field after another
SaveWrite(w) ==
    /\ pc[w] = "save"
    /\ file' = [file EXCEPT ![Fields[savePos[w] + 1]] = SavedField(w, savePos[w] + 1)]
    /\ savePos' = [savePos EXCEPT ![w] = @ + 1]
    /\ IF savePos[w] + 1 = 5
       THEN Advance(w)
       ELSE UNCHANGED <<pc, epoch, batch_idx>>
    /\ UNCHANGED <<call, metrics, optAtStart, cfg, run, setupCalls, groupLive, wrapped, network, optimizer,
                   scheduler, scaler, grads, starting_epochs, contributed,
                   roundInf, overflows, exported, epochsRun, saveCalls,
                   skipCalls, processed, stepAttempts, stepsSkipped, batches,
                   schedAtStart, observed, snap>>

\* model_loader.save_model(network)
SaveModel(w) ==
    /\ pc[w] = "export"
    /\ exported' = [exported EXCEPT ![w] = @ + 1]
    /\ pc' = [pc EXCEPT ![w] = "cleanup"]
    /\ UNCHANGED <<call, metrics, optAtStart, cfg, run, setupCalls, groupLive, wrapped, network, optimizer,
                   scheduler, scaler, grads, starting_epochs, epoch, batch_idx,
                   contributed, roundInf, overflows, file, savePos, epochsRun,
                   saveCalls, skipCalls, processed, stepAttempts, stepsSkipped,
                   batches, schedAtStart, observed, snap>>

\* cleanup_distibuted(): dist.destroy_process_group() raises when no process
\* group was initialised
CleanupDistributed(w) ==
    /\ pc[w] = "cleanup"
    /\ IF groupLive[w]
       THEN /\ groupLive' = [groupLive EXCEPT ![w] = FALSE]
            /\ pc' = [pc EXCEPT ![w] = "done"]
       ELSE /\ pc' = [pc EXCEPT ![w] = "failed"]
            /\ UNCHANGED groupLive
    /\ UNCHANGED <<call, metrics, optAtStart, cfg, run, setupCalls, wrapped, network, optimizer,
                   scheduler, scaler, grads, starting_epochs, epoch, batch_idx,
                   contributed, roundInf, overflows, file, savePos, exported,
                   epochsRun, saveCalls, skipCalls, processed, stepAttempts,
                   stepsSkipped, batches, schedAtStart, observed, snap>>

\* the processes of this invocation end (completed, failed or killed) and
\* the program is invoked again with the same arguments; only the disk stays
NewRun ==
    /\ run < MaxRuns
    /\ run' = run + 1
    /\ pc' = [w \in Ranks |-> "start"]
    /\ setupCalls' = [w \in Ranks |-> 0]
    /\ groupLive' = [w \in Ranks |-> FALSE]
    /\ wrapped' = [w \in Ranks |-> FALSE]
    /\ network' = [w \in Ranks |-> 0]
    /\ optimizer' = [w \in Ranks |-> 0]
    /\ scheduler' = [w \in Ranks |-> 0]
    /\ scaler' = [w \in Ranks |-> InitScaler]
    /\ grads' = [w \in Ranks |-> "none"]
    /\ starting_epochs' = [w \in Ranks |-> 0]
    /\ epoch' = [w \in Ranks |-> 0]
    /\ batch_idx' = [w \in Ranks |-> 0]
    /\ contributed' = [w \in Ranks |-> 0]
    /\ roundInf' = FALSE
    /\ savePos' = [w \in Ranks |-> 0]
    /\ exported' = [w \in Ranks |-> 0]
    /\ epochsRun' = [w \in Ranks |-> <<>>]
    /\ saveCalls' = [w \in Ranks |-> {}]
    /\ skipCalls' = [w \in Ranks |-> {}]
    /\ stepAttempts' = [w \in Ranks |-> 0]
    /\ stepsSkipped' = [w \in Ranks |-> 0]
    /\ batches' = [w \in Ranks |-> 0]
    /\ schedAtStart' = [w \in Ranks |-> 0]
    /\ optAtStart' = [w \in Ranks |-> 0]
    /\ observed' = [w \in Ranks |-> NotLoaded]
    /\ processed' = {}
    /\ UNCHANGED <<call, metrics, cfg, overflows, file, snap>>

Next ==
    \/ \E w \in Ranks : PrepareNetwork(w)
    \/ \E w \in Ranks : InitProcessGroup(w)
    \/ \E w \in Ranks : WrapDDP(w)
    \/ \E w \in Ranks : LoadCheckpoint(w)
    \/ \E w \in Ranks : EpochLoop(w)
    \/ \E w \in Ranks : ForwardBackward(w)
    \/ \E w \in Ranks : BackwardDone(w)
    \/ \E w \in Ranks : OptimStep(w)
    \/ \E w \in Ranks : ZeroGrad(w)
    \/ \E w \in Ranks : SchedulerStep(w)
    \/ \E w \in Ranks : SaveWrite(w)
    \/ \E w \in Ranks : SaveModel(w)
    \/ \E w \in Ranks : CleanupDistributed(w)
    \/ NewRun

Spec == Init /\ [][Next]_vars

\* ------------------------------------------- one invocation, with faults
\* where an exception can leave training_loop between the process-group
\* setup and the end of the last epoch
RaisePoints == {"load", "epoch", "batch", "allreduce", "step", "zero_grad",
                "sched", "save"}

\* training_loop has no try / except / finally: the exception leaves it, and
\* nothing after the raising statement runs
PropagateAfterTeardown(w) ==
    /\ pc' = [pc EXCEPT ![w] = "failed"]
    /\ groupLive' = [groupLive EXCEPT ![w] = FALSE]
    /\ UNCHANGED <<call, metrics, optAtStart, cfg, run, setupCalls, wrapped,
                   network, optimizer, scheduler, scaler, grads,
                   starting_epochs, epoch, batch_idx, contributed, roundInf,
                   overflows, file, savePos, exported, epochsRun, saveCalls,
                   skipCalls, processed, stepAttempts, stepsSkipped, batches,
                   schedAtStart, observed, snap>>
Propagate(w) ==
    /\ pc' = [pc EXCEPT ![w] = "failed"]
    /\ UNCHANGED <<call, metrics, optAtStart, cfg, run, setupCalls, groupLive,
                   wrapped, network, optimizer, scheduler, scaler, grads,
                   starting_epochs, epoch, batch_idx, contributed, roundInf,
                   overflows, file, savePos, exported, epochsRun, saveCalls,
                   skipCalls, processed, stepAttempts, stepsSkipped, batches,
                   schedAtStart, observed, snap>>

\* a statement of the loop (load, forward, backward, step, save, ...) raises
Raise(w) ==
    /\ pc[w] \in RaisePoints
    /\ Propagate(w)

\* the next statement of worker w
Step(w) ==
    \/ PrepareNetwork(w)
    \/ InitProcessGroup(w)
    \/ WrapDDP(w)
    \/ LoadCheckpoint(w)
    \/ EpochLoop(w)
    \/ ForwardBackward(w)
    \/ BackwardDone(w)
    \/ OptimStep(w)
    \/ ZeroGrad(w)
    \/ SchedulerStep(w)
    \/ SaveWrite(w)
    \/ SaveModel(w)
    \/ CleanupDistributed(w)

NextFault ==
    \/ \E w \in Ranks : Step(w)
    \/ \E w \in Ranks : Raise(w)

\* one invocation on an empty disk; every worker process is scheduled as
\* long as it has a statement to run, an exception may or may not happen
SpecFault == Init /\ [][NextFault]_vars /\ WF_vars(\E w \in Ranks : Step(w))

\* --------------------------------------------- the helpers, call by call
\* is_main_process(rank, world_size)
is_main_process_rank_only(rank, world_size) == rank \in {-1, 0}
is_main_process(rank, world_size) ==
    (rank = -1 /\ world_size = -1) \/ (rank = 0 /\ world_size > 0)

\* prepare_logger(rank, world_size): the level the logger is set to
prepare_logger(rank, world_size) ==
    IF is_main_process(rank, world_size) THEN "INFO" ELSE "CRITICAL"

\* prepare_dataloader: max_sentence_len = max_seq_len // 4 (floor division)
max_sentence_len_half(max_seq_len) == max_seq_len \div 2
max_sentence_len(max_seq_len) == max_seq_len \div 4

\* prepare_dataloader: max_passage_len = max_seq_len
max_passage_len(max_seq_len) == max_seq_len

\* everything but the record of the call under check
loopVars == <<cfg, run, pc, setupCalls, groupLive, wrapped, network,
              optimizer, scheduler, scaler, grads, starting_epochs, epoch,
              batch_idx, contributed, roundInf, overflows, file, savePos,
              exported, epochsRun, saveCalls, skipCalls, processed,
              stepAttempts, stepsSkipped, batches, schedAtStart, observed,
              snap, optAtStart>>

\* no training in progress: one single-process configuration, not started
Idle ==
    /\ cfg = [device |-> "cpu", world_size |-> -1, epochs |-> 1,
              nsamples |-> 1, batch_size |-> 1, checkpoint_interval |-> 1]
    /\ run = 1
    /\ file = NoFile
    /\ overflows = 0
    /\ processed = {}
    /\ snap = [w \in {-1} |-> NoSnap]
    /\ FreshWorkers(cfg)

\* the arguments of the call: any rank, world_size and max_seq_len
InitPure ==
    /\ Idle
    /\ metrics = NoMetrics
    /\ \E r \in -MaxRank..MaxRank, ws \in -MaxRank..MaxRank,
          m \in -MaxSeqLen..MaxSeqLen :
          call = [NoCall EXCEPT !.rank = r, !.world_size = ws,
                                !.max_seq_len = m]

CallIsMainProcess ==
    /\ ~call.returned
    /\ call' = [call EXCEPT !.fn = "is_main_process", !.returned = TRUE,
                   !.main = is_main_process(call.rank, call.world_size)]
    /\ UNCHANGED <<loopVars, metrics>>

CallPrepareLogger ==
    /\ ~call.returned
    /\ call' = [call EXCEPT !.fn = "prepare_logger", !.returned = TRUE,
                   !.level = prepare_logger(call.rank, call.world_size)]
    /\ UNCHANGED <<loopVars, metrics>>

CallPrepareDataloader ==
    /\ ~call.returned
    /\ call' = [call EXCEPT !.fn = "prepare_dataloader", !.returned = TRUE,
                   !.max_sentence_length = max_sentence_len(call.max_seq_len),
                   !.max_context_length = max_passage_len(call.max_seq_len)]
    /\ UNCHANGED <<loopVars, metrics>>

NextPure ==
    \/ CallIsMainProcess
    \/ CallPrepareLogger
    \/ CallPrepareDataloader

SpecPure == InitPure /\ [][NextPure]_vars

\* ------------------------------------------ the metric totals of an epoch
\* the shapes of the batches the dataloader yields and the length of the run:
\* prompts are batch_size x prompt_len, labels are batch_size x label_len
InitMetrics ==
    /\ Idle
    /\ call = NoCall
    /\ \E pl \in 1..MaxLen, ll \in 1..MaxLen, bs \in 1..MaxBatch,
          nb \in 1..MaxBatches, ep \in 1..MaxEpochs :
          metrics = [NoMetrics EXCEPT !.prompt_len = pl, !.label_len = ll,
                                      !.batch_size = bs, !.nbatches = nb,
                                      !.epochs_left = ep]

\* the head of the epoch loop: num_correct = 0; num_total = 0; total_loss = 0
EpochBegin ==
    /\ metrics.phase \in {"idle", "logged"}
    /\ metrics.epochs_left > 0
    /\ metrics' = [metrics EXCEPT !.phase = "batch",
                      !.epochs_left = @ - 1, !.batch_idx = 0,
                      !.num_correct = 0, !.num_total = 0, !.total_loss = 0]
    /\ UNCHANGED <<loopVars, call>>

\* one batch: total_loss += loss.item();
\* num_correct += sum(argmax(y) == labels_expected), any count of the
\* batch_size x (label_len - 1) expected positions;
\* num_total += prompts.size(0) * prompts.size(1)
BatchMetrics ==
    /\ metrics.phase = "batch"
    /\ metrics.batch_idx < metrics.nbatches
    /\ \E loss \in 0..MaxLoss,
          c \in 0..(metrics.batch_size * (metrics.label_len - 1)) :
          metrics' = [metrics EXCEPT
                         !.total_loss = @ + loss,
                         !.num_correct = @ + c,
                         !.num_total = @ + metrics.batch_size * metrics.prompt_len,
                         !.batch_idx = @ + 1]
    /\ UNCHANGED <<loopVars, call>>

\* after the last batch: avg_loss = total_loss / len(dataloader);
\* accuracy = num_correct / num_total   (kept as numerator, denominator)
EpochEnd ==
    /\ metrics.phase = "batch"
    /\ metrics.batch_idx = metrics.nbatches
    /\ metrics' = [metrics EXCEPT !.phase = "logged",
                      !.avg_loss = <<metrics.total_loss, metrics.nbatches>>,
                      !.accuracy = <<metrics.num_correct, metrics.num_total>>]
    /\ UNCHANGED <<loopVars, call>>

NextMetrics ==
    \/ EpochBegin
    \/ BatchMetrics
    \/ EpochEnd

SpecMetrics == InitMetrics /\ [][NextMetrics]_vars

\* ================================================================ claims
\* positions of training_loop after the checkpoint was loaded (or found absent)
InLoop(w) == pc[w] \in {"epoch", "batch", "allreduce", "step", "zero_grad",
                        "sched", "save", "export", "cleanup", "done"}
LoopLeft(w) == pc[w] \in {"export", "cleanup", "done"} \/ exported[w] > 0

\* C1 -- Resume range: a run that loaded a checkpoint with epoch value E (E = 0
\* when there was no checkpoint) enters exactly the epochs E+1, E+2, ... in
\* that order, never an epoch <= E, and has entered exactly the configured
\* number of epochs when it leaves the loop.
C1_ResumeRange ==
    \A w \in Ranks :
        (InLoop(w) \/ LoopLeft(w)) =>
            LET E == IF observed[w].kind = "absent" THEN 0 ELSE observed[w].epochs
                n == Len(epochsRun[w])
            IN  /\ starting_epochs[w] = E
                /\ n <= cfg.epochs
                /\ \A i \in 1..n : epochsRun[w][i] = E + i
                /\ LoopLeft(w) => n = cfg.epochs

\* a resumed run (E >= 1) that has run both of its two configured epochs
C1_Witness ==
    \E w \in Ranks :
        /\ run = 2 /\ cfg.epochs = 2
        /\ observed[w].kind = "whole" /\ observed[w].epochs >= 1
        /\ pc[w] = "export"
        /\ epochsRun[w] = <<observed[w].epochs + 1, observed[w].epochs + 2>>

\* C2 -- The stored epoch value is a completed-epoch count: whenever the
\* checkpoint written by the current run holds epoch = E, the rank that wrote
\* it has processed every batch of epoch E.
C2_CompletedEpoch ==
    (file.epochs.present /\ file.epochs.id[1] = run) =>
        LET wr == file.epochs.id[2] IN
        \A b \in 0..(LenDataloader(wr) - 1) :
            <<wr, file.epochs.val, b>> \in processed

\* C3 -- Checkpoint-interval triggering: a rank calls save_checkpoint after the
\* batch of index b iff b mod checkpoint_interval = 0, and the save carries
\* the epoch that is running.
C3_IntervalTrigger ==
    \A w \in Ranks :
        /\ \A c \in saveCalls[w] : c[2] % cfg.checkpoint_interval = 0
        /\ \A c \in skipCalls[w] : c[2] % cfg.checkpoint_interval # 0
        /\ \A t \in processed : t[1] = w =>
               <<t[2], t[3]>> \in saveCalls[w] \cup skipCalls[w]
        /\ pc[w] = "save" =>
               /\ snap[w].epochs = epoch[w]
               /\ epoch[w] = epochsRun[w][Len(epochsRun[w])]
               /\ <<epoch[w], batch_idx[w]>> \in saveCalls[w]

\* interval 2 on three batches: saved after batches 0 and 2, not after batch 1
C3_Witness ==
    \E w \in Ranks : \E e \in 1..(MaxEpochs * MaxRuns) :
        /\ cfg.checkpoint_interval = 2
        /\ {<<e, 0>>, <<e, 2>>} \subseteq saveCalls[w]
        /\ <<e, 1>> \in skipCalls[w]

\* C4 -- Checkpoint atomicity: whenever no rank is inside save_checkpoint the
\* stored checkpoint is absent or holds all five fields as written by one
\* save call, and no load finds a partly written or mixed checkpoint.  Stated
\* for the first invocation, in which no process has been killed.
C4_Atomic ==
    run = 1 =>
        /\ (\A w \in Ranks : pc[w] # "save") => Classify(file) \in {"absent", "whole"}
        /\ \A w \in Ranks : observed[w].kind \in {"nothing", "absent", "whole"}

C6_SetupOrdering ==
    \A w \in Ranks :
        /\ setupCalls[w] <= 1
        /\ (w # -1 /\ cfg.world_size # -1) =>
               ((wrapped[w] \/ InLoop(w) \/ batches[w] > 0) => setupCalls[w] = 1)
        /\ w = -1 => (setupCalls[w] = 0 /\ ~wrapped[w] /\ ~groupLive[w])

\* two ranks, both set up once and wrapped, one of them past its first batch
C6_Witness ==
    /\ cfg.world_size = 2
    /\ \A w \in Ranks : setupCalls[w] = 1 /\ wrapped[w]
    /\ \E w \in Ranks : batches[w] >= 1

\* C7 -- Batch-granularity lock-step: when a rank has attempted its n-th
\* optimizer step every rank has contributed to the n-th gradient collective,
\* so the optimizer-step attempts of two ranks differ by at most one.
C7_LockStep ==
    \A v, w \in Ranks :
        /\ stepAttempts[w] <= contributed[v]
        /\ stepAttempts[w] - stepAttempts[v] <= 1

\* two ranks exactly one optimizer-step attempt apart
C7_Witness ==
    /\ cfg.world_size = 2
    /\ stepAttempts[0] = 2 /\ stepAttempts[1] = 1

\* C8 -- Scheduler cadence: between batches, a rank's schedule has advanced
\* since start / restore exactly as often as the rank has processed batches
\* (and attempted optimizer steps), on every device, and not at epoch ends.
C8_SchedulerCadence ==
    \A w \in Ranks :
        /\ scheduler[w] - schedAtStart[w] = batches[w]
        /\ pc[w] \in {"epoch", "batch", "allreduce", "step", "save", "export",
                      "cleanup", "done"} =>
               scheduler[w] - schedAtStart[w] =
                   Cardinality({t \in processed : t[1] = w})
        /\ pc[w] \in {"epoch", "batch", "save", "export", "cleanup", "done"} =>
               scheduler[w] - schedAtStart[w] = stepAttempts[w]

\* a restored rank that has processed two batches, one of them with a
\* skipped optimizer step, and has crossed an epoch boundary
C8_Witness ==
    \E w \in Ranks :
        /\ schedAtStart[w] > 0
        /\ batches[w] >= 2 /\ stepsSkipped[w] = 1
        /\ Len(epochsRun[w]) = 2

\* C9 -- Overflow recovery: on cuda a step whose gradients overflowed leaves
\* model and optimizer unchanged, halves the scale and goes on to zero_grad
\* (the run does not fail); a step with finite gradients is applied; on cpu
\* the step is always applied and the scaler is left alone.
C9_OverflowRecovery ==
    [][\A w \in Ranks :
         (run' = run /\ pc[w] = "step" /\ pc'[w] # "step") =>
            /\ pc'[w] = "zero_grad"
            /\ IF DeviceType(w) = "cuda"
               THEN IF grads[w] = "inf"
                    THEN /\ network'[w] = network[w]
                         /\ optimizer'[w] = optimizer[w]
                         /\ scaler'[w].scale * 2 = scaler[w].scale
                    ELSE /\ network'[w] = network[w] + 1
                         /\ optimizer'[w] = optimizer[w] + 1
                         /\ scaler'[w].scale >= scaler[w].scale
               ELSE /\ network'[w] = network[w] + 1
                    /\ optimizer'[w] = optimizer[w] + 1
                    /\ scaler'[w] = scaler[w]]_vars

\* a cuda rank whose step was skipped, with the scale halved, and that went on
\* to apply the step of a later batch
C9_Witness ==
    \E w \in Ranks :
        /\ DeviceType(w) = "cuda"
        /\ stepsSkipped[w] = 1 /\ scaler[w].scale * 2 = InitScale
        /\ stepAttempts[w] >= 2 /\ grads[w] = "finite" /\ pc[w] = "zero_grad"

\* C10 -- Checkpoint corruption is fatal: a rank whose load found a checkpoint
\* with a field missing has failed, with no batch processed, no checkpoint
\* save called, no final model exported and none of its states restored; the
\* run writes nothing to the checkpoint.
C10_CorruptFatal ==
    \A w \in Ranks :
        observed[w].kind = "partial" =>
            /\ pc[w] = "failed"
            /\ batches[w] = 0 /\ stepAttempts[w] = 0 /\ epochsRun[w] = <<>>
            /\ saveCalls[w] = {} /\ exported[w] = 0
            /\ network[w] = 0 /\ optimizer[w] = 0 /\ scheduler[w] = 0
            /\ scaler[w] = InitScaler
            /\ \A i \in 1..5 : file[Fields[i]].id[1] # run

\* a rank that failed on a checkpoint holding some but not all of its fields
C10_Witness ==
    \E w \in Ranks :
        /\ observed[w].kind = "partial" /\ pc[w] = "failed"
        /\ file.network.present /\ ~file.epochs.present

\* C11 -- Mid-loop exception: when a statement between the process-group
\* setup and the end of the last epoch raises, the worker is failed with no
\* final model exported and its process group still held; a failed worker
\* runs nothing more (no retry, no export, no teardown).
C11_Propagates ==
    /\ [][\A w \in Ranks :
            (pc[w] \in RaisePoints /\ pc'[w] = "failed") =>
                /\ exported'[w] = 0
                /\ groupLive'[w] = groupLive[w]
                /\ (w # -1 /\ cfg.world_size # -1) => groupLive'[w]]_vars
    /\ [][\A w \in Ranks :
            pc[w] = "failed" =>
                /\ pc'[w] = "failed"
                /\ exported'[w] = exported[w]
                /\ groupLive'[w] = groupLive[w]
                /\ batches'[w] = batches[w]
                /\ stepAttempts'[w] = stepAttempts[w]
                /\ contributed'[w] = contributed[w]
                /\ savePos'[w] = savePos[w]
                /\ network'[w] = network[w]]_vars
    /\ [](\A w \in Ranks :
            (pc[w] = "failed" /\ w # -1) => (exported[w] = 0 /\ groupLive[w]))

\* rank 0 failed after its first batch with the group held, while rank 1
\* waits in the next collective
C11_Witness ==
    /\ cfg.world_size = 2
    /\ pc[0] = "failed" /\ groupLive[0] /\ batches[0] >= 1 /\ exported[0] = 0
    /\ pc[1] = "allreduce" /\ contributed[1] > contributed[0]

\* C12 -- Final model export: in each run the final model artifact is
\* written exactly once (by one save_model call over all workers), only
\* after the last batch of the last configured epoch was processed, and
\* before the process group is torn down.
C12_ExportedOnce ==
    /\ Cardinality({w \in Ranks : exported[w] >= 1}) <= 1
    /\ \A w \in Ranks : exported[w] <= 1
    /\ \A w \in Ranks :
         exported[w] >= 1 =>
            <<w, LastEpoch(starting_epochs[w], cfg.epochs),
              LenDataloader(w) - 1>> \in processed
    /\ \A w \in Ranks : pc[w] = "done" => exported[w] = 1

\* C13 -- Saves are not rank-gated: every worker, whatever its rank, calls
\* save_checkpoint at each triggering batch it processed, the calls of all
\* workers write the one destination, and a worker that is saving is never
\* held back by another worker's save.
C13_SavesNotGated ==
    \A w \in Ranks :
        /\ \A p \in processed :
             (p[1] = w /\ CheckpointDue(p[3], cfg.checkpoint_interval)) =>
                (<<p[2], p[3]>> \in saveCalls[w] /\ snap[w] # NoSnap)
        /\ pc[w] = "save" => ENABLED SaveWrite(w)

\* both ranks are in the middle of writing the same checkpoint
C13_Witness ==
    /\ cfg.world_size = 2
    /\ pc[0] = "save" /\ savePos[0] \in 1..4
    /\ pc[1] = "save" /\ savePos[1] \in 1..4
    /\ snap[0].id # snap[1].id

\* C14 -- Designated reporter: is_main_process(rank, world_size) is true
\* exactly for (-1, -1) and for rank 0 with a positive world_size;
\* prepare_logger sets INFO exactly then and CRITICAL otherwise; among the
\* ranks 0..world_size-1 of a multi-worker run exactly one gets INFO.
C14_MainProcess ==
    LET main == (call.rank = -1 /\ call.world_size = -1)
                \/ (call.rank = 0 /\ call.world_size > 0) IN
    /\ (call.returned /\ call.fn = "is_main_process") => (call.main <=> main)
    /\ (call.returned /\ call.fn = "prepare_logger") =>
          /\ call.level \in {"INFO", "CRITICAL"}
          /\ call.level = "INFO" <=> main
          /\ call.world_size > 0 =>
               Cardinality({r \in 0..(call.world_size - 1) :
                    prepare_logger(r, call.world_size) = "INFO"}) = 1

\* the logger of rank 1 of a three-worker run is silenced, and so is the
\* one of rank 0 when world_size is -1
C14_Witness ==
    /\ call.returned /\ call.fn = "prepare_logger"
    /\ \/ call.rank = 1 /\ call.world_size = 3 /\ call.level = "CRITICAL"
       \/ call.rank = 0 /\ call.world_size = -1 /\ call.level = "CRITICAL"

\* C15 -- Derived length caps: the dataset is built with max_sentence_length
\* the floor of max_seq_len / 4 and max_context_length = max_seq_len; 16
\* gives 4 and 16.
C15_LengthCaps ==
    (call.returned /\ call.fn = "prepare_dataloader") =>
        /\ 4 * call.max_sentence_length <= call.max_seq_len
        /\ call.max_seq_len < 4 * call.max_sentence_length + 4
        /\ call.max_context_length = call.max_seq_len
        /\ call.max_seq_len = 16 =>
             (call.max_sentence_length = 4 /\ call.max_context_length = 16)

\* a max_seq_len that 4 does not divide: 10 gives 2 and 10
C15_Witness ==
    /\ call.returned /\ call.fn = "prepare_dataloader"
    /\ call.max_seq_len = 10
    /\ call.max_sentence_length = 2 /\ call.max_context_length = 10

\* the worker stands between two batches (or after the last one)
AtBatchBoundary(w) == pc[w] \in {"epoch", "batch", "save", "export"}

\* C16 (as stated) -- at every batch boundary and in every saved checkpoint
\* the optimizer steps applied in this run are as many as the schedule
\* advances of this run, skipped steps or not.
C16_SteppedTogether ==
    \A w \in Ranks :
        /\ AtBatchBoundary(w) =>
             optimizer[w] - optAtStart[w] = scheduler[w] - schedAtStart[w]
        /\ pc[w] = "save" =>
             snap[w].optimizer - optAtStart[w]
                = snap[w].scheduler - schedAtStart[w]

\* C16 (amended) -- at every batch boundary and in every saved checkpoint
\* the schedule advances of this run are as many as its batches, that is the
\* optimizer steps applied plus the steps the loss scaler skipped; the two
\* counts are equal exactly while no step was skipped.
C16_SteppedPerBatch ==
    \A w \in Ranks :
        /\ AtBatchBoundary(w) =>
             /\ scheduler[w] - schedAtStart[w] = batches[w]
             /\ optimizer[w] - optAtStart[w] + stepsSkipped[w]
                  = scheduler[w] - schedAtStart[w]
             /\ (optimizer[w] - optAtStart[w] = scheduler[w] - schedAtStart[w])
                  <=> stepsSkipped[w] = 0
        /\ pc[w] = "save" =>
             snap[w].optimizer - optAtStart[w] + stepsSkipped[w]
                = snap[w].scheduler - schedAtStart[w]

\* a checkpoint is being saved after a batch whose step the scaler skipped:
\* its schedule is one advance ahead of its optimizer
C16_Witness ==
    \E w \in Ranks :
        /\ pc[w] = "save"
        /\ stepsSkipped[w] = 1
        /\ snap[w].scheduler - schedAtStart[w]
             = snap[w].optimizer - optAtStart[w] + 1

\* C17 -- Teardown bracketed with setup: a worker that has gone through
\* cleanup_distibuted (it left the export behind and ended) is one that
\* called setup_distributed before; a single-process run, which never
\* initialises a group, ends without a failed teardown.
C17_Bracketed ==
    \A w \in Ranks :
        /\ (exported[w] >= 1 /\ pc[w] \in {"done", "failed"}) =>
              setupCalls[w] >= 1
        /\ (w = -1 /\ exported[w] >= 1) => pc[w] # "failed"

\* every worker exported the final model and tore its group down
AllCompleted ==
    \A w \in Ranks : pc[w] = "done" /\ exported[w] = 1 /\ ~groupLive[w]

\* worker w waits in a gradient collective for a peer that has stopped
\* (ended or failed) before contributing to it
BlockedBehind(w) ==
    /\ pc[w] = "allreduce"
    /\ \E v \in Ranks :
         /\ pc[v] \in {"done", "failed"}
         /\ contributed[v] < contributed[w]

C19_StepOrder ==
    /\ [][\A w \in Ranks :
            (run' = run /\ pc'[w] # pc[w]) =>
                /\ pc[w] = "batch" => pc'[w] = "allreduce"
                /\ pc[w] = "allreduce" => pc'[w] = "step"
                /\ pc[w] = "step" => pc'[w] = "zero_grad"
                /\ pc[w] = "zero_grad" => pc'[w] = "sched"
                /\ pc[w] = "sched" => pc'[w] \in {"save", "batch", "epoch"}
                /\ pc[w] = "save" => pc'[w] \in {"batch", "epoch"}
                /\ pc'[w] = "save" => pc[w] = "sched"]_vars
    /\ [](\A w \in Ranks :
            pc[w] = "save" =>
                /\ grads[w] = "zero"
                /\ <<w, epoch[w], batch_idx[w]>> \in processed
                /\ stepAttempts[w] = batches[w]
                /\ snap[w].id = <<run, w, epoch[w], batch_idx[w]>>
                /\ snap[w].network = network[w]
                /\ snap[w].optimizer = optimizer[w]
                /\ snap[w].optimizer
                     = optAtStart[w] + batches[w] - stepsSkipped[w]
                /\ snap[w].scheduler = schedAtStart[w] + batches[w])

\* the save after the second batch of a run: both updates and both schedule
\* advances are in the state being saved, gradients cleared
C19_Witness ==
    \E w \in Ranks :
        /\ pc[w] = "save" /\ batch_idx[w] = 1 /\ batches[w] = 2
        /\ grads[w] = "zero"
        /\ snap[w].optimizer = optAtStart[w] + 2
        /\ snap[w].scheduler = schedAtStart[w] + 2

\* C20 -- Per-epoch metrics well-formed: the three accumulators are zero
\* when an epoch starts, num_correct never exceeds num_total, so the logged
\* accuracy lies in [0, 1] whatever the prompt and label lengths, and the
\* average loss divides by the number of batches of the epoch.
C20_MetricsWellFormed ==
    /\ (metrics.phase = "batch" /\ metrics.batch_idx = 0) =>
          /\ metrics.num_correct = 0
          /\ metrics.num_total = 0
          /\ metrics.total_loss = 0
    /\ metrics.num_correct <= metrics.num_total
    /\ metrics.phase = "logged" =>
          /\ 0 <= metrics.accuracy[1]
          /\ metrics.accuracy[1] <= metrics.accuracy[2]
          /\ metrics.avg_loss = <<metrics.total_loss, metrics.nbatches>>

====
